---- MODULE Spec2Model ----
(***************************************************************************)
(* Build-time page generation of the blog.                                 *)
(*                                                                         *)
(* gatsby-node.js holds the two build hooks: onCreateNode, which gives     *)
(* every MarkdownRemark node a slug field, and createPages, which queries  *)
(* the markdown nodes sorted by front-matter date (descending) and emits   *)
(* one createPage call per node with its previous/next neighbours and the  *)
(* pagination numbers.  src/pages/index.tsx is the index view, which lists *)
(* a Postcard per markdown node.                                           *)
(*                                                                         *)
(* The pages are React components: the index view that lists the recent    *)
(* posts with separators, the Post template with its ReadMore links, SEO   *)
(* with its canonical URL, and Layout, whose mount effect appends a style  *)
(* element with two backgrounds picked by randomColor.                     *)
(*                                                                         *)
(* Conventions.  A slug "/a/b/" is the tuple of its segments <<"a", "b">>. *)
(* JavaScript's null is the record null.  A front-matter that lacks a key  *)
(* is a record without that field.  Sequences are 1-based here and 0-based *)
(* in the source: the context's index field keeps the source's value.      *)
(***************************************************************************)
EXTENDS Integers, Sequences, FiniteSets, TLC

VARIABLES
    nodes,       \* the node store, in creation order
    blogPosts,   \* createPages: result.data.allMarkdownRemark.edges
    pages,       \* the createPage calls, in the order they were made
    indexPages,  \* the index views rendered, each a sequence of Postcards
    phase,       \* "sourcing", "pagesCreated", "rendered"
    postPages,   \* what the Post template rendered for each created page
    utils,       \* the randomColor the bundle holds: "stateful", "stateless"
    available,   \* the closure variable of the stateful randomColor
    calls,       \* the colours randomColor has returned, in call order
    head,        \* document.head: the style elements appended to it
    mounted,     \* the Layout instances mounted now
    mounts,      \* the Layout mounts so far
    renders,     \* the Layout renders so far
    helmets      \* the SEO renders: site, props and the Helmet given

buildVars == <<nodes, blogPosts, pages, indexPages, phase>>

browserVars == <<utils, available, calls, head, mounted, mounts, renders>>

frontVars == <<postPages, browserVars, helmets>>

vars == <<buildVars, frontVars>>

(***************************************************************************)
(* Bounds of the model.                                                    *)
(***************************************************************************)
MaxNodes == 3
MaxPagingNodes == 13
MaxRuns == 2
MaxLiveNodes == 2
MaxDate == 2
MaxSiteNodes == 3
MaxCalls == 4
MaxRenders == 3
MaxHelmets == 2
RandomSteps == 10

(***************************************************************************)
(* Program constants.                                                      *)
(***************************************************************************)
postsPerPage == 6

limit == 10

basePath == "pages"

component == "./src/templates/blog/post.tsx"

null == [null |-> TRUE]

noFields == [k \in {} |-> null]

(***************************************************************************)
(* Inputs: the files the two gatsby-source-filesystem instances find, as   *)
(* paths relative to the instance's directory, split as path.parse splits  *)
(* them (dir segments, file name without extension), and the front-matter  *)
(* blocks of the markdown files (date as a day number).                    *)
(***************************************************************************)
RelPaths ==
    { [dir |-> <<"foo">>, name |-> "index"],
      [dir |-> <<>>, name |-> "foo"],
      [dir |-> <<"pages">>, name |-> "foo"],
      [dir |-> <<"bar">>, name |-> "index"] }

FrontMatters ==
    { [title |-> "t", date |-> d] : d \in 1..MaxDate }
        \cup { [title |-> "t"], [date |-> 1] }

NodeTypes == {"MarkdownRemark", "File"}

MarkdownNode(id, rel, fm) ==
    [ id |-> id,
      internal |-> [type |-> "MarkdownRemark"],
      relativePath |-> rel,
      frontmatter |-> fm,
      html |-> id,
      fields |-> noFields ]

FileNode(id, rel) ==
    [ id |-> id,
      internal |-> [type |-> "File"],
      relativePath |-> rel,
      fields |-> noFields ]

(***************************************************************************)
(* createFilePath({ node, getNode, basePath: `pages` }) of                 *)
(* gatsby-source-filesystem: the file's path relative to basePath, its     *)
(* directory joined with its name, where the name index is dropped, with   *)
(* a leading and a trailing slash.  path.posix.join("/", "../foo") is      *)
(* "/foo", so a path outside basePath keeps its directory and a path under *)
(* basePath loses that first segment.                                      *)
(***************************************************************************)
createFilePathNumbered(node) ==
    LET rel == node.relativePath
        dir == IF rel.dir # <<>> /\ Head(rel.dir) = basePath
               THEN Tail(rel.dir)
               ELSE rel.dir
        parsedName == IF rel.name = "index" THEN <<>> ELSE <<rel.name>>
    IN  dir \o parsedName \o <<ToString(node.id)>>

createFilePath(node) ==
    LET rel == node.relativePath
        dir == IF rel.dir # <<>> /\ Head(rel.dir) = basePath
               THEN Tail(rel.dir)
               ELSE rel.dir
        parsedName == IF rel.name = "index" THEN <<>> ELSE <<rel.name>>
    IN  dir \o parsedName

createNodeField(node, name, value) ==
    [node EXCEPT !.fields =
        [k \in DOMAIN node.fields \cup {name} |->
            IF k = name THEN value ELSE node.fields[k]]]

(***************************************************************************)
(* exports.onCreateNode, on the node Gatsby has just created: the store    *)
(* gets the node, with a slug field when it is a MarkdownRemark node.      *)
(***************************************************************************)
withSlugFieldAlways(node) == createNodeField(node, "slug", createFilePath(node))

withSlugField(node) ==
    IF node.internal.type = "MarkdownRemark"
    THEN createNodeField(node, "slug", createFilePath(node))
    ELSE node

onCreateNode(node) ==
    /\ phase = "sourcing"
    /\ nodes' = Append(nodes, withSlugField(node))
    /\ UNCHANGED <<blogPosts, pages, indexPages, phase>>
    /\ UNCHANGED frontVars

(***************************************************************************)
(* The sources of nodes.  Gatsby calls onCreateNode once for each node it  *)
(* creates; one file is never two nodes of the same type.  A File node has *)
(* no front-matter, so the draw of fm is pinned for it.                    *)
(***************************************************************************)
SourceNodes ==
    \E type \in NodeTypes, rel \in RelPaths, fm \in FrontMatters :
        /\ Len(nodes) < MaxNodes
        /\ \A i \in 1..Len(nodes) :
               ~(nodes[i].internal.type = type /\ nodes[i].relativePath = rel)
        /\ type = "File" => fm = [title |-> "t"]
        /\ onCreateNode(IF type = "MarkdownRemark"
                        THEN MarkdownNode(Len(nodes) + 1, rel, fm)
                        ELSE FileNode(Len(nodes) + 1, rel))

(***************************************************************************)
(* In development a changed file is created as a node again, and           *)
(* onCreateNode runs again on the same path, with whatever nodes were      *)
(* processed in between.                                                   *)
(***************************************************************************)
ReprocessNodes ==
    \E type \in NodeTypes, rel \in RelPaths, fm \in FrontMatters :
        /\ Len(nodes) < MaxRuns
        /\ type = "File" => fm = [title |-> "t"]
        /\ onCreateNode(IF type = "MarkdownRemark"
                        THEN MarkdownNode(Len(nodes) + 1, rel, fm)
                        ELSE FileNode(Len(nodes) + 1, rel))

SourcePosts ==
    \E type \in NodeTypes :
        /\ Len(nodes) < MaxPagingNodes
        /\ LET id == Len(nodes) + 1
               rel == [dir |-> <<ToString(id)>>, name |-> "index"]
           IN  onCreateNode(IF type = "MarkdownRemark"
                            THEN MarkdownNode(id, rel, [title |-> "t", date |-> 1])
                            ELSE FileNode(id, rel))

(***************************************************************************)
(* The query of createPages:                                               *)
(*   allMarkdownRemark(sort: {fields: [frontmatter___date], order: DESC})  *)
(*     { edges { node { html fields { slug } } } }                         *)
(* The engine orders the MarkdownRemark nodes by the date key, greatest    *)
(* first; a node without a date ranks above every date, and nodes with     *)
(* equal keys keep the store's order.  An edge carries the selected        *)
(* fields only.                                                            *)
(***************************************************************************)
isMarkdownRemark(n) == n.internal.type = "MarkdownRemark"

MarkdownRemarks(ns) == SelectSeq(ns, isMarkdownRemark)

dateKey(n) ==
    IF "date" \in DOMAIN n.frontmatter THEN n.frontmatter.date ELSE MaxDate + 1

staysBeforeAscending(a, b) == dateKey(a) <= dateKey(b)

staysBefore(a, b) == dateKey(a) >= dateKey(b)

insertByDate(sorted, n) ==
    SelectSeq(sorted, LAMBDA e : staysBefore(e, n))
        \o <<n>>
        \o SelectSeq(sorted, LAMBDA e : ~staysBefore(e, n))

sortByDateSkipped(ns) == ns

RECURSIVE sortByDate(_)
sortByDate(ns) ==
    IF ns = <<>>
    THEN <<>>
    ELSE insertByDate(sortByDate(SubSeq(ns, 1, Len(ns) - 1)), ns[Len(ns)])

postEdge(n) == [node |-> [html |-> n.html, fields |-> [slug |-> n.fields.slug]]]

allMarkdownRemarkByDate(ns) ==
    LET sorted == sortByDate(MarkdownRemarks(ns))
    IN  [i \in 1..Len(sorted) |-> postEdge(sorted[i])]

(***************************************************************************)
(* exports.createPages: the body of the .then callback.                    *)
(***************************************************************************)
floor(a, b) == a \div b

ceil(a, b) == IF a % b = 0 THEN a \div b ELSE (a \div b) + 1

numPagesOf(count) == ceil(count, postsPerPage)

neighboursOffByOne(posts, i) ==
    [ next |-> IF i = Len(posts) THEN null ELSE posts[i + 1].node,
      previous |-> IF i = 1 THEN null ELSE posts[i].node ]

neighboursSwapped(posts, i) ==
    [ next |-> IF i = 1 THEN null ELSE posts[i - 1].node,
      previous |-> IF i = Len(posts) THEN null ELSE posts[i + 1].node ]

neighbours(posts, i) ==
    [ next |-> IF i = Len(posts) THEN null ELSE posts[i + 1].node,
      previous |-> IF i = 1 THEN null ELSE posts[i - 1].node ]

pageOfPrefixed(posts, i) ==
    [ path |-> <<"blog">> \o posts[i].node.fields.slug,
      component |-> component,
      context |->
        [ slug |-> posts[i].node.fields.slug,
          html |-> posts[i].node.html,
          previous |-> neighbours(posts, i).previous,
          next |-> neighbours(posts, i).next,
          index |-> i - 1,
          numPages |-> numPagesOf(Len(posts)),
          postsPerPage |-> postsPerPage ] ]

pageOf(posts, i) ==
    [ path |-> posts[i].node.fields.slug,
      component |-> component,
      context |->
        [ slug |-> posts[i].node.fields.slug,
          html |-> posts[i].node.html,
          previous |-> neighbours(posts, i).previous,
          next |-> neighbours(posts, i).next,
          index |-> i - 1,
          numPages |-> numPagesOf(Len(posts)),
          postsPerPage |-> postsPerPage ] ]

createPagesSortingInPlace ==
    /\ phase = "sourcing"
    /\ LET posts == allMarkdownRemarkByDate(nodes)
       IN  /\ blogPosts' = posts
           /\ pages' = [i \in 1..Len(posts) |-> pageOf(posts, i)]
    /\ phase' = "pagesCreated"
    /\ nodes' = sortByDate(MarkdownRemarks(nodes))
                    \o SelectSeq(nodes, LAMBDA n : ~isMarkdownRemark(n))
    /\ UNCHANGED indexPages
    /\ UNCHANGED frontVars

createPagesPartial ==
    /\ phase = "sourcing"
    /\ LET posts == allMarkdownRemarkByDate(nodes)
       IN  /\ blogPosts' = posts
           /\ pages' = [i \in 1..(Len(posts) - 1) |-> pageOf(posts, i)]
    /\ phase' = "pagesCreated"
    /\ UNCHANGED <<nodes, indexPages>>
    /\ UNCHANGED frontVars

createPages ==
    /\ phase = "sourcing"
    /\ LET posts == allMarkdownRemarkByDate(nodes)
       IN  /\ blogPosts' = posts
           /\ pages' = [i \in 1..Len(posts) |-> pageOf(posts, i)]
    /\ phase' = "pagesCreated"
    /\ UNCHANGED <<nodes, indexPages>>
    /\ UNCHANGED frontVars

(***************************************************************************)
(* src/pages/index.tsx: the query                                          *)
(*   posts: allMarkdownRemark { edges { node { frontmatter {...}           *)
(*                                             fields { slug } } } }       *)
(* asks for no order and no limit, and IndexPage maps every edge to a      *)
(* Postcard on the one index page.  A Postcard is a link to the post's     *)
(* slug, followed by a separator (hr) when its withBreak prop is true.     *)
(***************************************************************************)
summaryEdge(n) ==
    [node |-> [frontmatter |-> n.frontmatter, fields |-> [slug |-> n.fields.slug]]]

allMarkdownRemark(ns) ==
    LET found == MarkdownRemarks(ns)
    IN  [i \in 1..Len(found) |-> summaryEdge(found[i])]

Postcard(props) ==
    [ to |-> props.post.fields.slug,
      post |-> props.post,
      hr |-> "withBreak" \in DOMAIN props /\ props.withBreak ]

IndexPage ==
    /\ phase = "pagesCreated"
    /\ LET posts == allMarkdownRemark(nodes)
       IN  indexPages' =
               << [i \in 1..Len(posts) |-> Postcard([post |-> posts[i].node])] >>
    /\ phase' = "rendered"
    /\ UNCHANGED <<nodes, blogPosts, pages>>
    /\ UNCHANGED frontVars

(***************************************************************************)
(* The index page in its version with the recent posts: the query          *)
(*   posts: allMarkdownRemark(limit: 10,                                   *)
(*                            sort: {fields: frontmatter___date,           *)
(*                                   order: DESC})                         *)
(*     { edges { node { frontmatter { blurb title } fields { slug } } } }  *)
(* and a Postcard per edge, withBreak on every edge but the last (idx is   *)
(* the 0-based position of the edge).                                      *)
(***************************************************************************)
recentEdge(n) ==
    [node |->
        [ frontmatter |->
            [k \in DOMAIN n.frontmatter \cap {"blurb", "title"} |-> n.frontmatter[k]],
          fields |-> [slug |-> n.fields.slug] ]]

recentPosts(ns) ==
    LET sorted == sortByDate(MarkdownRemarks(ns))
        shown == IF Len(sorted) > limit THEN limit ELSE Len(sorted)
    IN  [i \in 1..shown |-> recentEdge(sorted[i])]

postcardPropsAllBreaks(node, idx, count) == [post |-> node, withBreak |-> TRUE]

postcardProps(node, idx, count) ==
    IF idx # count - 1
    THEN [post |-> node, withBreak |-> TRUE]
    ELSE [post |-> node]

IndexPageRecent ==
    /\ phase = "pagesCreated"
    /\ LET posts == recentPosts(nodes)
       IN  indexPages' =
               << [i \in 1..Len(posts) |->
                      Postcard(postcardProps(posts[i].node, i - 1, Len(posts)))] >>
    /\ phase' = "rendered"
    /\ UNCHANGED <<nodes, blogPosts, pages>>
    /\ UNCHANGED frontVars

(***************************************************************************)
(* ReadMore({ next, previous }): next?.frontmatter.title and               *)
(* previous?.frontmatter.title are read first, and reading title of a      *)
(* neighbour that has no frontmatter throws a TypeError; otherwise the     *)
(* list holds a link to previous when previous is truthy and a link to     *)
(* next when next is truthy, each to the neighbour's slug.                 *)
(***************************************************************************)
TypeError == [error |-> "TypeError"]

throwsOnTitle(ref) == ref # null /\ "frontmatter" \notin DOMAIN ref

linkTo(ref) ==
    [ to |-> ref.fields.slug,
      text |-> IF "title" \in DOMAIN ref.frontmatter
               THEN <<ref.frontmatter.title>>
               ELSE <<>> ]

ReadMore(props) ==
    IF throwsOnTitle(props.next) \/ throwsOnTitle(props.previous)
    THEN TypeError
    ELSE [ previous |-> IF props.previous # null
                        THEN <<linkTo(props.previous)>>
                        ELSE <<>>,
           next |-> IF props.next # null THEN <<linkTo(props.next)>> ELSE <<>> ]

(***************************************************************************)
(* The Post template in its version with ReadMore:                         *)
(*   const { post, next, previous } = props.pageContext;                   *)
(*   const { title } = post.frontmatter;                                   *)
(* throws a TypeError when the context has no post (or the post no         *)
(* frontmatter); otherwise the page shows the title, the post's html and   *)
(* <ReadMore next={next} previous={previous} />.                           *)
(***************************************************************************)
Post(pageContext) ==
    IF \/ "post" \notin DOMAIN pageContext
       \/ "frontmatter" \notin DOMAIN pageContext.post
    THEN TypeError
    ELSE LET readMore == ReadMore([ next |-> pageContext.next,
                                    previous |-> pageContext.previous ])
         IN  IF readMore = TypeError
             THEN TypeError
             ELSE [ html |-> pageContext.post.html, readMore |-> readMore ]

(***************************************************************************)
(* Gatsby renders the created pages, one after the other, each with the    *)
(* template and the context of its createPage call.                        *)
(***************************************************************************)
PostPage ==
    /\ phase # "sourcing"
    /\ Len(postPages) < Len(pages)
    /\ postPages' = Append(postPages, Post(pages[Len(postPages) + 1].context))
    /\ UNCHANGED <<buildVars, browserVars, helmets>>

(***************************************************************************)
(* randomColor.  Math.random() is r / RandomSteps for a draw r of          *)
(* 0..RandomSteps-1, a number of [0, 1); an array read outside the array   *)
(* is undefined.  The stateful version keeps the pool available in its     *)
(* closure: it picks from the pool and refills the pool with every colour  *)
(* but the one picked.  The stateless version picks from the five colours. *)
(***************************************************************************)
Color == {"var(--pink)", "var(--lilac)", "var(--mint)", "var(--peach)", "var(--sky)"}

colors == <<"var(--pink)", "var(--lilac)", "var(--mint)", "var(--peach)", "var(--sky)">>

undefined == "undefined"

Utils == {"stateful", "stateless"}

Draws == 0..(RandomSteps - 1)

roundOf(r, n) == (2 * r * n + RandomSteps) \div (2 * RandomSteps)

floorOf(r, n) == (r * n) \div RandomSteps

at(arr, i) == IF i \in 0..(Len(arr) - 1) THEN arr[i + 1] ELSE undefined

withoutNothing(chosen) == colors

without(chosen) == SelectSeq(colors, LAMBDA color : color # chosen)

statefulColor(pool, r) ==
    LET chosen == at(pool, floorOf(r, Len(pool)))
    IN  [chosen |-> chosen, available |-> without(chosen)]

statelessColor(r) == at(colors, floorOf(r, 5))

colorCall(pool, r) ==
    IF utils = "stateful"
    THEN statefulColor(pool, r)
    ELSE [chosen |-> statelessColor(r), available |-> pool]

randomColor ==
    \E r \in Draws :
        /\ Len(calls) < MaxCalls
        /\ LET call == colorCall(available, r)
           IN  /\ available' = call.available
               /\ calls' = Append(calls, call.chosen)
        /\ UNCHANGED <<utils, head, mounted, mounts, renders>>
        /\ UNCHANGED <<buildVars, postPages, helmets>>

(***************************************************************************)
(* Layout.  useEffect(effect, []) runs the effect after the first render   *)
(* of an instance (its mount) and after no later render; the effect builds *)
(* the css with randomColor(), randomShape(), randomColor(), in this       *)
(* order, and appends a style element holding it to document.head.  It     *)
(* returns no cleanup, so an unmount leaves the head as it is.  The        *)
(* percentages randomShape draws are not modelled.                         *)
(***************************************************************************)
randomShape == "polygon"

effectRunsEveryRender(isMount) == TRUE

effectRuns(isMount) == isMount

Layout(isMount) ==
    /\ renders < MaxRenders
    /\ isMount \/ mounted > 0
    /\ IF effectRuns(isMount)
       THEN \E r1, r2 \in Draws :
                LET first == colorCall(available, r1)
                    second == colorCall(first.available, r2)
                IN  /\ Len(calls) + 2 <= MaxCalls
                    /\ available' = second.available
                    /\ calls' = calls \o <<first.chosen, second.chosen>>
                    /\ head' = Append(head, [ after |-> first.chosen,
                                              clipPath |-> randomShape,
                                              before |-> second.chosen ])
       ELSE UNCHANGED <<available, calls, head>>
    /\ renders' = renders + 1
    /\ mounted' = IF isMount THEN mounted + 1 ELSE mounted
    /\ mounts' = IF isMount THEN mounts + 1 ELSE mounts
    /\ UNCHANGED utils
    /\ UNCHANGED <<buildVars, postPages, helmets>>

LayoutMount == Layout(TRUE)

LayoutRender == Layout(FALSE)

LayoutUnmount ==
    /\ mounted > 0
    /\ mounted' = mounted - 1
    /\ UNCHANGED <<utils, available, calls, head, mounts, renders>>
    /\ UNCHANGED <<buildVars, postPages, helmets>>

(***************************************************************************)
(* SEO({ description, lang, meta, title, path }).  A string is the tuple   *)
(* of its parts, so that + is \o and the empty string is <<>>; a prop that *)
(* is not passed is a field the props record lacks.  canonicalUrl is       *)
(* site.siteMetadata.url, with path appended when path is truthy.  The     *)
(* defaultProps give meta [] and description ``.                           *)
(***************************************************************************)
SiteUrls == { <<"https://a.example">>, <<"https://b.example", "/", "blog">> }

SeoProps ==
    { [title |-> <<"Blog">>],
      [title |-> <<"t">>, path |-> <<>>],
      [title |-> <<"t">>, path |-> <<"/">>],
      [title |-> <<"t">>, path |-> <<"/", "foo", "/">>],
      [title |-> <<"t">>, description |-> <<"blurb">>],
      [title |-> <<"t">>, description |-> <<"blurb">>, path |-> <<"/", "foo", "/">>],
      [title |-> <<"t">>, description |-> <<"blurb">>, path |-> <<"/", "bar", "/">>],
      [title |-> <<"t">>, description |-> <<>>, path |-> <<"/", "bar", "/">>] }

siteOf(url) ==
    [siteMetadata |->
        [ title |-> <<"Mark Sauer-Utley">>,
          description |-> <<"Blog of NYC-based dev Mark Sauer-Utley">>,
          author |-> <<"@mrkutly">>,
          url |-> url,
          image |-> <<"image">> ]]

canonicalUrlBare(site, props) == site.siteMetadata.url

canonicalUrl(site, props) ==
    IF "path" \in DOMAIN props /\ props.path # <<>>
    THEN site.siteMetadata.url \o props.path
    ELSE site.siteMetadata.url

metaDescription(site, props) ==
    IF "description" \in DOMAIN props /\ props.description # <<>>
    THEN props.description
    ELSE site.siteMetadata.description

SEO(site, props) ==
    [ htmlAttributes |-> [lang |-> <<"en">>],
      title |-> props.title,
      titleTemplate |-> <<"%s | ">> \o site.siteMetadata.title,
      meta |->
        << [name |-> "description", content |-> metaDescription(site, props)],
           [property |-> "og:title", content |-> props.title],
           [property |-> "og:image", content |-> site.siteMetadata.image],
           [property |-> "og:url", content |-> canonicalUrl(site, props)],
           [property |-> "og:description", content |-> metaDescription(site, props)],
           [property |-> "og:type", content |-> <<"blog">>],
           [property |-> "twitter:image", content |-> site.siteMetadata.image],
           [name |-> "twitter:card", content |-> <<"summary">>],
           [name |-> "twitter:url", content |-> canonicalUrl(site, props)],
           [name |-> "twitter:creator", content |-> site.siteMetadata.author],
           [name |-> "twitter:title", content |-> props.title],
           [name |-> "twitter:description", content |-> metaDescription(site, props)] >>,
      link |-> [rel |-> "canonical", href |-> canonicalUrl(site, props)] ]

RenderSEO ==
    \E url \in SiteUrls, props \in SeoProps :
        /\ Len(helmets) < MaxHelmets
        /\ helmets # <<>> => siteOf(url) = helmets[1].site
        /\ helmets' = Append(helmets, [ site |-> siteOf(url),
                                        props |-> props,
                                        helmet |-> SEO(siteOf(url), props) ])
        /\ UNCHANGED <<buildVars, postPages, browserVars>>

(***************************************************************************)
(* Specifications.  Spec builds a site from up to MaxNodes files of every  *)
(* kind; SpecPaging builds one from up to MaxPagingNodes regular posts, to *)
(* reach the post counts at which the page count changes.                  *)
(***************************************************************************)
Loaded ==
    /\ nodes = <<>>
    /\ blogPosts = <<>>
    /\ pages = <<>>
    /\ indexPages = <<>>
    /\ phase = "sourcing"
    /\ postPages = <<>>
    /\ available = colors
    /\ calls = <<>>
    /\ head = <<>>
    /\ mounted = 0
    /\ mounts = 0
    /\ renders = 0
    /\ helmets = <<>>

Init == Loaded /\ utils = "stateless"

Next == SourceNodes \/ createPages \/ IndexPage

Spec == Init /\ [][Next]_vars

NextPaging == SourcePosts \/ createPages \/ IndexPage

SpecPaging == Init /\ [][NextPaging]_vars

NextSlug == ReprocessNodes \/ createPages \/ IndexPage

SpecSlug == Init /\ [][NextSlug]_vars

(***************************************************************************)
(* The build runs its stages to the end: once sourcing is over Gatsby      *)
(* calls createPages, and then renders the pages.  The files are posts     *)
(* with or without a date, and other files, each found once.               *)
(***************************************************************************)
SourceFiles ==
    \E type \in NodeTypes, rel \in RelPaths,
       fm \in {[title |-> "t", date |-> 1], [title |-> "t"]} :
        /\ Len(nodes) < MaxLiveNodes
        /\ \A i \in 1..Len(nodes) :
               ~(nodes[i].internal.type = type /\ nodes[i].relativePath = rel)
        /\ type = "File" => fm = [title |-> "t"]
        /\ onCreateNode(IF type = "MarkdownRemark"
                        THEN MarkdownNode(Len(nodes) + 1, rel, fm)
                        ELSE FileNode(Len(nodes) + 1, rel))

NextLive == SourceFiles \/ createPages \/ IndexPage

SpecLive ==
    Init /\ [][NextLive]_vars /\ WF_vars(createPages) /\ WF_vars(IndexPage)

(***************************************************************************)
(* The site as its visitors get it.  SpecSite builds a site from up to     *)
(* MaxSiteNodes files and renders its index page and its post pages;       *)
(* SpecRecent renders the index page of up to MaxPagingNodes regular       *)
(* posts; SpecBrowser is a browser session over a bundle with either       *)
(* version of randomColor, where Layout instances mount, render again and  *)
(* unmount; SpecSEO renders SEO with the props its callers pass.           *)
(***************************************************************************)
SourceSite ==
    \E type \in NodeTypes, rel \in RelPaths,
       fm \in {[title |-> "t", date |-> 1], [title |-> "t", date |-> 2]} :
        /\ Len(nodes) < MaxSiteNodes
        /\ \A i \in 1..Len(nodes) :
               ~(nodes[i].internal.type = type /\ nodes[i].relativePath = rel)
        /\ type = "File" => fm = [title |-> "t", date |-> 1]
        /\ onCreateNode(IF type = "MarkdownRemark"
                        THEN MarkdownNode(Len(nodes) + 1, rel, fm)
                        ELSE FileNode(Len(nodes) + 1, rel))

NextSite == SourceSite \/ createPages \/ IndexPageRecent \/ PostPage

SpecSite == Init /\ [][NextSite]_vars

NextRecent == SourcePosts \/ createPages \/ IndexPageRecent

SpecRecent == Init /\ [][NextRecent]_vars

InitBrowser == Loaded /\ utils \in Utils

NextBrowser == randomColor \/ LayoutMount \/ LayoutRender \/ LayoutUnmount

SpecBrowser == InitBrowser /\ [][NextBrowser]_vars

SpecSEO == Init /\ [][RenderSEO]_vars

(***************************************************************************)
(* Vocabulary of the properties.                                           *)
(***************************************************************************)
Posts == MarkdownRemarks(nodes)

storeNode(edge) ==
    CHOOSE n \in {nodes[k] : k \in 1..Len(nodes)} :
        isMarkdownRemark(n) /\ n.html = edge.node.html

hasTitleAndDate(n) == {"title", "date"} \subseteq DOMAIN n.frontmatter

built == phase # "sourcing"

recordedNumPages == IF pages = <<>> THEN 0 ELSE pages[1].context.numPages

RECURSIVE flatten(_)
flatten(seqs) == IF seqs = <<>> THEN <<>> ELSE Head(seqs) \o flatten(Tail(seqs))

(***************************************************************************)
(* C1.  The page emitted for the i-th post of the sorted sequence has the  *)
(* (i-1)-th post as previous (null for the first) and the (i+1)-th as next *)
(* (null for the last).                                                    *)
(***************************************************************************)
C1_AdjacentLinks ==
    /\ Len(pages) = Len(blogPosts)
    /\ \A i \in 1..Len(pages) :
        /\ pages[i].context.html = blogPosts[i].node.html
        /\ pages[i].context.previous =
               (IF i > 1 THEN blogPosts[i - 1].node ELSE null)
        /\ pages[i].context.next =
               (IF i < Len(blogPosts) THEN blogPosts[i + 1].node ELSE null)

C1_Witness ==
    /\ built
    /\ Len(pages) = 3
    /\ pages[1].context.previous = null
    /\ pages[2].context.previous = blogPosts[1].node
    /\ pages[2].context.next = blogPosts[3].node
    /\ pages[3].context.next = null
    /\ blogPosts[1].node # blogPosts[3].node

(***************************************************************************)
(* C2.  createPages emits exactly one page per post: as many createPage    *)
(* calls as posts, and every post's slug is the path of exactly one page.  *)
(***************************************************************************)
C2_OnePagePerPost ==
    built =>
        /\ Len(pages) = Len(Posts)
        /\ \A k \in 1..Len(Posts) :
               Cardinality({i \in 1..Len(pages) :
                               pages[i].path = Posts[k].fields.slug}) = 1

(***************************************************************************)
(* C3.  No two emitted pages share a path.                                 *)
(***************************************************************************)
C3_DistinctSlugs ==
    \A i, j \in 1..Len(pages) : i # j => pages[i].path # pages[j].path

(***************************************************************************)
(* C4.  When two distinct markdown files resolve to the same slug the      *)
(* build stops before any page is emitted.                                 *)
(***************************************************************************)
slugCollision ==
    \E a, b \in 1..Len(Posts) :
        /\ a # b
        /\ Posts[a].relativePath # Posts[b].relativePath
        /\ Posts[a].fields.slug = Posts[b].fields.slug

C4_CollisionStopsBuild == slugCollision => pages = <<>> /\ ~built

(***************************************************************************)
(* C5.  A markdown file whose front-matter lacks title or date gets no     *)
(* page and is nobody's neighbour, and the number of pages is the number   *)
(* of markdown files minus the skipped ones.                               *)
(***************************************************************************)
C5_IncompleteSkipped ==
    built =>
        /\ \A i \in 1..Len(blogPosts) : hasTitleAndDate(storeNode(blogPosts[i]))
        /\ Len(pages) = Len(SelectSeq(Posts, hasTitleAndDate))

(***************************************************************************)
(* C6.  The sequence used for page generation is non-increasing by date:   *)
(* every adjacent pair (a, b) has a's date key >= b's, in the order of the *)
(* sort, where a post without a date ranks above every date.               *)
(***************************************************************************)
C6_NonIncreasingDates ==
    \A i \in 1..(Len(blogPosts) - 1) :
        dateKey(storeNode(blogPosts[i])) >= dateKey(storeNode(blogPosts[i + 1]))

C6_Witness ==
    /\ built
    /\ \E i \in 1..(Len(blogPosts) - 1) :
        LET a == storeNode(blogPosts[i])
            b == storeNode(blogPosts[i + 1])
        IN  /\ hasTitleAndDate(a) /\ hasTitleAndDate(b)
            /\ a.frontmatter.date > b.frontmatter.date
            /\ a.id > b.id

(***************************************************************************)
(* C8.  The page count recorded in every page context is the ceiling of    *)
(* count / postsPerPage: the least n with n * postsPerPage >= count.       *)
(***************************************************************************)
C8_NumPagesIsCeiling ==
    \A i \in 1..Len(pages) :
        LET count == Cardinality({k \in 1..Len(nodes) : isMarkdownRemark(nodes[k])})
            n == pages[i].context.numPages
        IN  /\ n * postsPerPage >= count
            /\ (n - 1) * postsPerPage < count

C8_Witness ==
    /\ built
    /\ Len(pages) = postsPerPage + 1
    /\ \A i \in 1..Len(pages) : pages[i].context.numPages = 2

(***************************************************************************)
(* C9.  The pagination plan splits the sorted sequence into chunks of      *)
(* postsPerPage posts (chunk k holds the posts whose context records       *)
(* index k, for k below the recorded page count), and the chunks           *)
(* concatenated in order are the sorted sequence.                          *)
(***************************************************************************)
planChunk(k) ==
    LET picked == SelectSeq([i \in 1..Len(pages) |-> i],
                            LAMBDA i : pages[i].context.index = k)
    IN  [j \in 1..Len(picked) |-> blogPosts[picked[j]]]

planChunks == [c \in 1..recordedNumPages |-> planChunk(c - 1)]

C9_ChunksRebuildSequence ==
    built =>
        /\ flatten(planChunks) = blogPosts
        /\ \A c \in 1..Len(planChunks) :
            /\ Len(planChunks[c]) <= postsPerPage
            /\ c < Len(planChunks) => Len(planChunks[c]) = postsPerPage

(***************************************************************************)
(* C10.  The index views list the post summaries in descending date order, *)
(* postsPerPage per index page (the last may hold fewer), over as many     *)
(* index pages as the page count.                                          *)
(***************************************************************************)
C10_IndexViewsPaginated ==
    phase = "rendered" =>
        LET cards == flatten(indexPages)
        IN  /\ Len(Posts) > 0 => Len(indexPages) = numPagesOf(Len(Posts))
            /\ \A p \in 1..Len(indexPages) :
                /\ Len(indexPages[p]) <= postsPerPage
                /\ p < Len(indexPages) => Len(indexPages[p]) = postsPerPage
            /\ Len(cards) = Len(Posts)
            /\ \A i \in 1..(Len(cards) - 1) :
                   dateKey(cards[i].post) >= dateKey(cards[i + 1].post)

(***************************************************************************)
(* C11.  The index recorded in a page context is an index-page number:     *)
(* 0 <= index < numPages in every emitted context.                         *)
(***************************************************************************)
C11_IndexBelowNumPages ==
    \A i \in 1..Len(pages) :
        /\ 0 <= pages[i].context.index
        /\ pages[i].context.index < pages[i].context.numPages

(***************************************************************************)
(* C12.  Every createPage call bundles the owning post itself, as          *)
(* context.post with its front-matter and its rendered html.               *)
(***************************************************************************)
C12_ContextBundlesPost ==
    \A i \in 1..Len(pages) :
        /\ "post" \in DOMAIN pages[i].context
        /\ {"frontmatter", "html"} \subseteq DOMAIN pages[i].context.post
        /\ pages[i].context.post.html = blogPosts[i].node.html

(***************************************************************************)
(* C14.  previous and next are consistent with the date order: previous    *)
(* (when present) is the post just before and next the post just after in  *)
(* the descending-date sequence, so                                        *)
(* date(previous) >= date(post) >= date(next), in the order of the sort.   *)
(***************************************************************************)
C14_NeighboursFollowDates ==
    \A i \in 1..Len(pages) :
        LET ctx == pages[i].context
            own == dateKey(storeNode(blogPosts[i]))
        IN  /\ ctx.previous # null =>
                /\ i > 1 /\ ctx.previous = blogPosts[i - 1].node
                /\ dateKey(storeNode([node |-> ctx.previous])) >= own
            /\ ctx.next # null =>
                /\ i < Len(blogPosts) /\ ctx.next = blogPosts[i + 1].node
                /\ own >= dateKey(storeNode([node |-> ctx.next]))

C14_Witness ==
    /\ built
    /\ Len(pages) = 3
    /\ pages[2].context.previous # null
    /\ pages[2].context.next # null
    /\ dateKey(storeNode(blogPosts[1])) > dateKey(storeNode(blogPosts[2]))
    /\ dateKey(storeNode(blogPosts[2])) > dateKey(storeNode(blogPosts[3]))
    /\ storeNode(blogPosts[1]).id > storeNode(blogPosts[3]).id

(***************************************************************************)
(* C18.  onCreateNode gives a node a field if and only if the node is a    *)
(* MarkdownRemark node: such a node gets exactly one field, slug, and a    *)
(* node of another type is stored as it came, with no field.               *)
(***************************************************************************)
C18_SlugFieldIffMarkdown ==
    \A k \in 1..Len(nodes) :
        IF nodes[k].internal.type = "MarkdownRemark"
        THEN DOMAIN nodes[k].fields = {"slug"}
        ELSE nodes[k] = FileNode(nodes[k].id, nodes[k].relativePath)

C18_Witness ==
    \E a, b \in 1..Len(nodes) :
        /\ nodes[a].internal.type = "File"
        /\ nodes[b].internal.type = "MarkdownRemark"
        /\ nodes[a].relativePath = nodes[b].relativePath
        /\ nodes[a].fields = noFields
        /\ nodes[b].fields.slug = <<"foo">>

(***************************************************************************)
(* C19.  A previous or next neighbour placed in a page context carries     *)
(* fields.slug and frontmatter.title, the two fields ReadMore reads.       *)
(***************************************************************************)
carriesSlugAndTitle(ref) ==
    /\ {"fields", "frontmatter"} \subseteq DOMAIN ref
    /\ "slug" \in DOMAIN ref.fields
    /\ "title" \in DOMAIN ref.frontmatter

C19_NeighbourHasSlugAndTitle ==
    \A i \in 1..Len(pages) :
        /\ pages[i].context.previous # null =>
               carriesSlugAndTitle(pages[i].context.previous)
        /\ pages[i].context.next # null =>
               carriesSlugAndTitle(pages[i].context.next)

(***************************************************************************)
(* C20.  The links are symmetric: the page of a has next = b if and only   *)
(* if the page of b has previous = a, and no post is its own previous or   *)
(* next.                                                                   *)
(***************************************************************************)
C20_LinksSymmetric ==
    /\ Len(pages) = Len(blogPosts)
    /\ \A a, b \in 1..Len(pages) :
           (pages[a].context.next = blogPosts[b].node)
               <=> (pages[b].context.previous = blogPosts[a].node)
    /\ \A a \in 1..Len(pages) :
        /\ pages[a].context.next # blogPosts[a].node
        /\ pages[a].context.previous # blogPosts[a].node

C20_Witness ==
    /\ built
    /\ Len(pages) = 3
    /\ pages[1].context.next = blogPosts[2].node
    /\ pages[2].context.previous = blogPosts[1].node
    /\ pages[2].context.next = blogPosts[3].node
    /\ pages[3].context.previous = blogPosts[2].node
    /\ pages[1].context.next # pages[2].context.next

C15_PostsUnchanged ==
    [][ /\ Len(nodes') >= Len(nodes)
        /\ \A k \in 1..Len(nodes) : nodes'[k] = nodes[k]
        /\ phase' # phase => nodes' = nodes
        /\ built => blogPosts' = blogPosts ]_vars

C15_Witness ==
    /\ phase = "rendered"
    /\ Len(pages) = 2
    /\ Len(nodes) = 3
    /\ storeNode(blogPosts[1]).id > storeNode(blogPosts[2]).id

(***************************************************************************)
(* C16.  No page is emitted for a post before the post's slug field is     *)
(* assigned: every page that a step emits has as its path the slug that    *)
(* onCreateNode had already given, before that step, to the node whose     *)
(* html the page carries.                                                  *)
(***************************************************************************)
C16_SlugAssignedBeforePage ==
    [][ \A i \in 1..Len(pages') :
            \E k \in 1..Len(nodes) :
                /\ isMarkdownRemark(nodes[k])
                /\ "slug" \in DOMAIN nodes[k].fields
                /\ nodes[k].fields.slug = pages'[i].path
                /\ nodes[k].html = pages'[i].context.html ]_vars

C16_Witness ==
    /\ built
    /\ Len(pages) = 2
    /\ pages[1].path # pages[2].path
    /\ \E k \in 1..Len(nodes) : ~isMarkdownRemark(nodes[k])

(***************************************************************************)
(* C17.  The pipeline terminates, and it never stands past page creation   *)
(* with only part of the pages emitted: whenever createPages has run,      *)
(* every post has its page, and the build reaches its rendered end.        *)
(***************************************************************************)
allPagesEmitted ==
    /\ Len(pages) = Len(Posts)
    /\ \A k \in 1..Len(Posts) :
           \E i \in 1..Len(pages) : pages[i].context.html = Posts[k].html

C17_RunsToCompletion ==
    /\ [](built => allPagesEmitted)
    /\ <>(phase = "rendered")

C17_Witness ==
    /\ phase = "rendered"
    /\ Len(pages) = 2
    /\ Len(nodes) = 2
    /\ allPagesEmitted

(***************************************************************************)
(* C21.  Every link target the site renders is the path of a page that     *)
(* createPages emitted: the slug each index-page Postcard links to, the    *)
(* slug of every neighbour ReadMore is given, and the target of every link *)
(* a rendered ReadMore holds.                                              *)
(***************************************************************************)
pagePaths == {pages[i].path : i \in 1..Len(pages)}

C21_LinksResolve ==
    /\ \A v \in 1..Len(indexPages) :
           \A c \in 1..Len(indexPages[v]) : indexPages[v][c].to \in pagePaths
    /\ \A i \in 1..Len(pages) :
        /\ pages[i].context.previous # null =>
               pages[i].context.previous.fields.slug \in pagePaths
        /\ pages[i].context.next # null =>
               pages[i].context.next.fields.slug \in pagePaths
    /\ \A i \in 1..Len(postPages) :
           "readMore" \in DOMAIN postPages[i] =>
               \A l \in 1..Len(postPages[i].readMore.previous
                                   \o postPages[i].readMore.next) :
                   (postPages[i].readMore.previous
                        \o postPages[i].readMore.next)[l].to \in pagePaths

C21_Witness ==
    /\ phase = "rendered"
    /\ Len(pages) = 3
    /\ Len(postPages) = 3
    /\ Len(indexPages[1]) = 3
    /\ indexPages[1][1].to # indexPages[1][3].to
    /\ indexPages[1][2].to = indexPages[1][3].to
    /\ pages[2].context.previous # null
    /\ pages[2].context.next # null
    /\ pages[2].context.previous.fields.slug # pages[2].context.next.fields.slug

(***************************************************************************)
(* C22.  The page of a post shows a ReadMore link to the previous post if  *)
(* and only if the page's previous is present, and a link to the next post *)
(* if and only if its next is present.                                     *)
(***************************************************************************)
showsLink(view, side) ==
    /\ "readMore" \in DOMAIN view
    /\ view.readMore[side] # <<>>

C22_LinkIffPresent ==
    \A i \in 1..Len(postPages) :
        /\ showsLink(postPages[i], "previous") <=> pages[i].context.previous # null
        /\ showsLink(postPages[i], "next") <=> pages[i].context.next # null

(***************************************************************************)
(* C23.  The stateful randomColor never returns the same colour on two     *)
(* consecutive calls, so the two backgrounds of a style element that       *)
(* Layout appended differ.                                                 *)
(***************************************************************************)
C23_NoImmediateRepeat ==
    utils = "stateful" =>
        /\ \A i \in 1..(Len(calls) - 1) : calls[i] # calls[i + 1]
        /\ \A k \in 1..Len(head) : head[k].after # head[k].before

C23_Witness ==
    /\ utils = "stateful"
    /\ Len(calls) = 4
    /\ calls[1] = calls[3]
    /\ calls[2] # calls[4]
    /\ Len(head) = 1
    /\ head[1].after = calls[2]
    /\ head[1].before = calls[3]

(***************************************************************************)
(* C24.  On the index page every Postcard but the last has a separator and *)
(* the last has none: none at all with a single post, and no Postcard with *)
(* no posts.                                                               *)
(***************************************************************************)
C24_SeparatorsBetweenCards ==
    \A v \in 1..Len(indexPages) :
        LET cards == indexPages[v]
        IN  /\ \A c \in 1..(Len(cards) - 1) : cards[c].hr
            /\ Len(cards) > 0 => ~cards[Len(cards)].hr
            /\ Len(Posts) = 0 => cards = <<>>
            /\ Len(Posts) = 1 => Len(cards) = 1

C24_Witness ==
    /\ phase = "rendered"
    /\ Len(Posts) > limit
    /\ Len(indexPages[1]) = limit
    /\ indexPages[1][1].hr
    /\ indexPages[1][limit - 1].hr
    /\ ~indexPages[1][limit].hr

(***************************************************************************)
(* C25.  The canonical URL of an SEO render is the site URL followed by    *)
(* the path when a path is passed and the site URL alone otherwise, and it *)
(* is the content of the og:url meta, the content of the twitter:url meta  *)
(* and the href of the canonical link.                                     *)
(***************************************************************************)
metaContents(helmet, key) ==
    { helmet.meta[i].content :
        i \in { j \in 1..Len(helmet.meta) :
                  \/ "property" \in DOMAIN helmet.meta[j]
                        /\ helmet.meta[j].property = key
                  \/ "name" \in DOMAIN helmet.meta[j]
                        /\ helmet.meta[j].name = key } }

C25_CanonicalUrlEverywhere ==
    \A k \in 1..Len(helmets) :
        LET url == helmets[k].site.siteMetadata.url
            expected == IF "path" \in DOMAIN helmets[k].props
                        THEN url \o helmets[k].props.path
                        ELSE url
        IN  /\ metaContents(helmets[k].helmet, "og:url") = {expected}
            /\ metaContents(helmets[k].helmet, "twitter:url") = {expected}
            /\ helmets[k].helmet.link.rel = "canonical"
            /\ helmets[k].helmet.link.href = expected

C25_Witness ==
    /\ Len(helmets) = 2
    /\ "path" \notin DOMAIN helmets[1].props
    /\ helmets[1].helmet.link.href = helmets[1].site.siteMetadata.url
    /\ "path" \in DOMAIN helmets[2].props
    /\ helmets[2].props.path = <<"/", "foo", "/">>
    /\ helmets[2].helmet.link.href =
           <<"https://b.example", "/", "blog", "/", "foo", "/">>

(***************************************************************************)
(* C26.  The style elements in document.head are as many as the Layout     *)
(* mounts so far: a mount appends one, a later render of a mounted Layout  *)
(* appends none, and no unmount removes one.                               *)
(***************************************************************************)
C26_OneStylePerMount ==
    /\ Len(head) = mounts
    /\ mounted <= mounts
    /\ mounts <= renders

C26_Witness ==
    /\ mounts = 2
    /\ mounted = 0
    /\ renders = 3
    /\ Len(head) = 2

(***************************************************************************)
(* C27.  Every colour randomColor returned is one of the five declared     *)
(* colours, never undefined, in both versions; the pool of the stateful    *)
(* version holds the 5 colours before the first call and exactly 4 of them *)
(* after every call.                                                       *)
(***************************************************************************)
C27_AlwaysADeclaredColour ==
    /\ Cardinality(Color) = 5
    /\ \A i \in 1..Len(calls) : calls[i] \in Color /\ calls[i] # undefined
    /\ \A k \in 1..Len(head) : {head[k].after, head[k].before} \subseteq Color
    /\ utils = "stateful" =>
        /\ Len(available) = (IF calls = <<>> THEN 5 ELSE 4)
        /\ Cardinality({available[j] : j \in 1..Len(available)}) = Len(available)
        /\ \A j \in 1..Len(available) : available[j] \in Color

C27_Witness ==
    /\ utils = "stateful"
    /\ Len(calls) = 3
    /\ calls[1] = "var(--sky)"
    /\ calls[2] = "var(--pink)"
    /\ calls[3] = "var(--sky)"
    /\ Len(available) = 4
    /\ \A j \in 1..Len(available) : available[j] # "var(--sky)"

====
